---------------------------- MODULE Spec2Model ----------------------------
(***************************************************************************)
(* branka: a sealed, expiring bearer token.  src/src/lib.rs builds          *)
(*   blob  = VERSION || timestamp (u32, big endian) || nonce (24 bytes)     *)
(*           || ciphertext || tag (16 bytes)                                *)
(*   token = base62(blob)                                                   *)
(* and decodes it through the gates base62, length, version, AEAD, expiry. *)
(*                                                                         *)
(* Bytes are integers 0..255 and byte strings are sequences, at the real   *)
(* field widths (29-byte header, 16-byte tag).  Unsigned 32-bit numbers    *)
(* are kept as two 16-bit halves, so that additions carry and wrap where   *)
(* the program's do.                                                       *)
(*                                                                         *)
(* The crates the program calls are modelled by what they do to bytes:     *)
(* base_x as the bignum radix conversion it is, speedy's String layout,    *)
(* flate2's three framings.  XChaCha20-Poly1305 is replaced by a small     *)
(* stand-in with the same interface (a keystream added to the plaintext,   *)
(* a keyed checksum over associated data and ciphertext as the tag); the   *)
(* stand-in detects every change the model makes to a sealed blob.         *)
(***************************************************************************)
EXTENDS Integers, Sequences, FiniteSets, TLC

VARIABLES
    built,      \* Branka::new: [st: "none" | "ok" | "panic", key: the slice it was given]
    codec,      \* the Branka value: [key, ttl]
    checked,    \* whether the build checks integer overflow (debug) or wraps (release)
    clock,      \* SystemTime::now() since UNIX_EPOCH in seconds: a u64, as four 16-bit words
    token,      \* the token string the caller holds (a sequence of ASCII codes)
    tok,        \* how that token was made: the inputs of the call that produced it
    res,        \* the pending call's return value
    calls       \* concurrent callers: each one's call in flight

vars == <<built, codec, checked, clock, token, tok, res, calls>>

----------------------------------------------------------------------------
(* Bounds of the model *)

MaxLen == 1         \* payload lengths 0..MaxLen
MaxTick == 2        \* the clock takes the instants Instant(0..MaxTick)
MaxStr == 1         \* strings given to the struct adapters have 0..MaxStr characters

----------------------------------------------------------------------------
(* Bytes and unsigned 32-bit arithmetic *)

Byte == 0..255

\* a lazily defined sequence made into a tuple of evaluated elements
Tup(f) == f \o <<>>

Fill(n, b) == Tup([i \in 1..n |-> b])

\* a u32 is the record of its two 16-bit halves
U32(hi, lo) == [hi |-> hi, lo |-> lo]
MaxU32 == U32(65535, 65535)

\* u32 + u32: the wrapped sum and whether it overflowed
AddU32(a, b) ==
    LET lo == a.lo + b.lo
        hi == a.hi + b.hi + (lo \div 65536)
    IN [sum |-> U32(hi % 65536, lo % 65536), overflow |-> hi >= 65536]

GtU32(a, b) == a.hi > b.hi \/ (a.hi = b.hi /\ a.lo > b.lo)

\* BigEndian::write_u32 / BigEndian::read_u32
WriteU32BE(v) == <<v.hi \div 256, v.hi % 256, v.lo \div 256, v.lo % 256>>
ReadU32BE(b) == U32(b[1] * 256 + b[2], b[3] * 256 + b[4])

\* bit k (0 = least significant) of byte b flipped
FlipBitOfByte(b, k) ==
    LET w == IF k = 0 THEN 1 ELSE IF k = 1 THEN 2 ELSE IF k = 2 THEN 4 ELSE IF k = 3 THEN 8
             ELSE IF k = 4 THEN 16 ELSE IF k = 5 THEN 32 ELSE IF k = 6 THEN 64 ELSE 128
    IN IF (b \div w) % 2 = 1 THEN b - w ELSE b + w

\* bit i (0-based, 8 per byte) of the byte string s flipped
FlipBit(s, i) ==
    Tup([j \in 1..Len(s) |-> IF j = (i \div 8) + 1 THEN FlipBitOfByte(s[j], i % 8) ELSE s[j]])

\* sum of f over lo..hi, by halves
RECURSIVE SumBytes(_, _, _)
SumBytes(s, lo, hi) ==
    IF lo > hi THEN 0
    ELSE IF lo = hi THEN s[lo]
    ELSE SumBytes(s, lo, (lo + hi) \div 2) + SumBytes(s, ((lo + hi) \div 2) + 1, hi)

\* sum of i * s[i] over lo..hi, by halves
RECURSIVE SumWeighted(_, _, _)
SumWeighted(s, lo, hi) ==
    IF lo > hi THEN 0
    ELSE IF lo = hi THEN lo * s[lo]
    ELSE SumWeighted(s, lo, (lo + hi) \div 2) + SumWeighted(s, ((lo + hi) \div 2) + 1, hi)

----------------------------------------------------------------------------
(* Program constants *)

VERSION == 186                  \* 0xBA
HeaderLen == 29
TagLen == 16
KeyLen == 32
NonceLen == HeaderLen - 5

\* "0123456789ABCDEFGHIJKLMNOPQRSTUVWXYZabcdefghijklmnopqrstuvwxyz" as ASCII codes
BASE62 == Tup([i \in 1..62 |-> IF i <= 10 THEN 47 + i ELSE IF i <= 36 THEN 54 + i ELSE 60 + i])

----------------------------------------------------------------------------
(* base_x::encode / base_x::decode over BASE62.                              *)
(* The big number is held in 24-bit limbs, most significant first.           *)

LimbBase == 256 * 65536

\* the number of leading elements of s equal to v, among its first n
LeadingCount(s, v, n) ==
    IF \A i \in 1..n : s[i] = v THEN n
    ELSE (CHOOSE i \in 1..n : s[i] # v /\ \A j \in 1..(i - 1) : s[j] = v) - 1

\* BigUint::from_bytes_be
FromBytesBE(bytes) ==
    LET n == (Len(bytes) + 2) \div 3
        pad == 3 * n - Len(bytes)
        B(i) == IF i <= pad THEN 0 ELSE bytes[i - pad]
    IN Tup([k \in 1..n |-> B(3 * k - 2) * 65536 + B(3 * k - 1) * 256 + B(3 * k)])

\* BigUint::into_bytes_be: the bytes without leading zero bytes
IntoBytesBE(limbs) ==
    LET all == Tup([i \in 1..(3 * Len(limbs)) |->
                  LET l == limbs[(i + 2) \div 3]
                  IN IF i % 3 = 1 THEN l \div 65536
                     ELSE IF i % 3 = 2 THEN (l \div 256) % 256 ELSE l % 256])
        z == LeadingCount(all, 0, Len(all))
    IN Tup([i \in 1..(Len(all) - z) |-> all[i + z]])

\* long division by d: the remainders left after each of the limbs lo..hi, rin carried in
RECURSIVE RemScan(_, _, _, _, _)
RemScan(big, d, lo, hi, rin) ==
    IF lo > hi THEN <<>>
    ELSE IF lo = hi THEN <<(rin * LimbBase + big[lo]) % d>>
    ELSE LET mid == (lo + hi) \div 2
             left == RemScan(big, d, lo, mid, rin)
         IN left \o RemScan(big, d, mid + 1, hi, left[Len(left)])

\* BigUint::div_mod
DivMod(big, d) ==
    LET rs == <<0>> \o RemScan(big, d, 1, Len(big), 0)
    IN [quot |-> Tup([i \in 1..Len(big) |-> (rs[i] * LimbBase + big[i]) \div d]),
        rem |-> rs[Len(big) + 1]]

IsZero(big) == \A i \in 1..Len(big) : big[i] = 0

\* one turn of the encoder's loop: divide, push the remainder's symbol; the loop
\* ends when the quotient is zero, after at least one turn
EncStep(st) ==
    IF st.out # <<>> /\ IsZero(st.big) THEN st
    ELSE LET qr == DivMod(st.big, 62)
         IN [big |-> qr.quot, out |-> <<BASE62[qr.rem + 1]>> \o st.out]

\* k turns of the loop
RECURSIVE EncLoop(_, _)
EncLoop(k, st) ==
    IF k = 0 THEN st
    ELSE IF k = 1 THEN EncStep(st)
    ELSE LET half == EncLoop(k \div 2, st)
         IN IF half.out # <<>> /\ IsZero(half.big) THEN half
            ELSE EncLoop(k - (k \div 2), half)

\* base_x::encode(BASE62, input): the digits of the number, most significant first,
\* after one BASE62[0] for every leading zero byte among the first len - 1 bytes.
\* A byte gives less than two digits, so 2 * len turns end the loop.
Base62Encode(input) ==
    IF input = <<>> THEN <<>>
    ELSE Fill(LeadingCount(input, 0, Len(input) - 1), BASE62[1])
         \o EncLoop(2 * Len(input), [big |-> FromBytesBE(input), out |-> <<>>]).out

\* the alphabet's lookup table: the digit of an ASCII code, -1 for a code outside it
DecodeTable ==
    Tup([c \in 1..256 |-> IF \E d \in 1..62 : BASE62[d] = c - 1
                          THEN (CHOOSE d \in 1..62 : BASE62[d] = c - 1) - 1 ELSE -1])
Lookup(c) == DecodeTable[c + 1]

\* big * m + a: the carries out of the limbs lo..hi, cin carried into limb hi
RECURSIVE CarryScan(_, _, _, _, _)
CarryScan(big, m, lo, hi, cin) ==
    IF lo > hi THEN <<>>
    ELSE IF lo = hi THEN <<(big[lo] * m + cin) \div LimbBase>>
    ELSE LET mid == (lo + hi) \div 2
             right == CarryScan(big, m, mid + 1, hi, cin)
         IN IF right = <<>> THEN <<>>
            ELSE CarryScan(big, m, lo, mid, right[1]) \o right

\* BigUint::mul_add
MulAdd(big, m, a) ==
    LET n == Len(big)
        cs == CarryScan(big, m, 1, n, a) \o <<a>>
        low == Tup([i \in 1..n |-> (big[i] * m + cs[i + 1]) % LimbBase])
    IN IF cs[1] = 0 THEN low ELSE <<cs[1]>> \o low

\* the decoder's loop over the characters lo..hi
RECURSIVE DecLoop(_, _, _, _)
DecLoop(s, lo, hi, big) ==
    IF lo > hi THEN big
    ELSE IF lo = hi THEN MulAdd(big, 62, Lookup(s[lo]))
    ELSE LET left == DecLoop(s, lo, (lo + hi) \div 2, big)
         IN IF Len(left) < 0 THEN <<>>
            ELSE DecLoop(s, ((lo + hi) \div 2) + 1, hi, left)

\* base_x::decode(BASE62, input): Err on a character outside the alphabet; else the
\* number's bytes after one zero byte for every leading BASE62[0]
Base62Decode(s) ==
    IF s = <<>> THEN [ok |-> TRUE, bytes |-> <<>>]
    ELSE IF \E i \in 1..Len(s) : Lookup(s[i]) < 0 THEN [ok |-> FALSE, bytes |-> <<>>]
    ELSE [ok |-> TRUE,
          bytes |-> Fill(LeadingCount(s, BASE62[1], Len(s)), 0)
                    \o IntoBytesBE(DecLoop(s, 1, Len(s), <<>>))]

----------------------------------------------------------------------------
(* XChaCha20Poly1305, as a stand-in with the crate's interface.              *)

\* the keystream of (key, nonce), n bytes
KeyStream(key, nonce, n) ==
    Tup([i \in 1..n |-> (key[((i - 1) % KeyLen) + 1] + nonce[((i - 1) % NonceLen) + 1] + i) % 256])

\* the tag of (associated data, ciphertext) under (key, nonce): 16 bytes
Mac(key, nonce, ad, ct) ==
    LET m == ad \o ct
        s1 == (SumBytes(m, 1, Len(m)) + Len(ad)) % 65536
        s2 == (SumWeighted(m, 1, Len(m)) + Len(ct)) % 65536
        w == <<s1 \div 256, s1 % 256, s2 \div 256, s2 % 256>>
    IN Tup([j \in 1..TagLen |->
              (key[j] + key[j + TagLen] + nonce[j] + 3 * nonce[j + 8] + w[((j - 1) % 4) + 1]) % 256])

\* encrypt_in_place_detached(nonce, associated_data, buffer): the buffer encrypted, the tag
Seal(key, nonce, ad, pt) ==
    LET ks == KeyStream(key, nonce, Len(pt))
        ct == Tup([i \in 1..Len(pt) |-> (pt[i] + ks[i]) % 256])
    IN [ct |-> ct, tag |-> Mac(key, nonce, ad, ct)]

\* decrypt_in_place_detached(nonce, associated_data, buffer, tag): Err unless the tag is
\* that of (associated data, buffer); else the buffer decrypted
Open(key, nonce, ad, ct, tag) ==
    LET ks == KeyStream(key, nonce, Len(ct))
    IN IF Mac(key, nonce, ad, ct) # tag THEN [ok |-> FALSE, pt |-> <<>>]
       ELSE [ok |-> TRUE, pt |-> Tup([i \in 1..Len(ct) |-> (ct[i] - ks[i] + 256) % 256])]

----------------------------------------------------------------------------
(* Branka *)

NoCodec == [key |-> <<>>, ttl |-> U32(0, 0)]

\* what a call returns: Ok(val), Err(err), or a panic
Ok(v) == [kind |-> "Ok", err |-> "", val |-> v]
Err(e) == [kind |-> "Err", err |-> e, val |-> <<>>]
Panic == [kind |-> "Panic", err |-> "", val |-> <<>>]

\* get_timestamp(): the clock's seconds (u64, four 16-bit words) cast to u32
get_timestamp(now) == U32(now[3], now[4])

\* Branka::new without the length assertion
NewOutcomeUnasserted(key) == "ok"

\* Branka::new: Key::from_slice asserts the slice's length
NewOutcome(key) == IF Len(key) = KeyLen THEN "ok" ELSE "panic"

\* encode_bytes writing the timestamp little endian
EncodeBlobLittleEndian(c, data, nonce, timestamp) ==
    LET be == WriteU32BE(timestamp)
        header == <<VERSION>> \o <<be[4], be[3], be[2], be[1]>> \o nonce
        sealed == Seal(c.key, nonce, header, data)
    IN header \o sealed.ct \o sealed.tag

\* encode_bytes up to the radix conversion: header || ciphertext || tag
EncodeBlob(c, data, nonce, timestamp) ==
    LET header == <<VERSION>> \o WriteU32BE(timestamp) \o nonce
        sealed == Seal(c.key, nonce, header, data)
    IN header \o sealed.ct \o sealed.tag

\* Branka::encode_bytes, with the nonce and the timestamp it draws
encode_bytes(c, data, nonce, timestamp) == Base62Encode(EncodeBlob(c, data, nonce, timestamp))

\* decode_bytes decrypting without verifying the tag
open_token_unverified(c, data) ==
    LET dec == Base62Decode(data)
        buf_crypt == dec.bytes
        n == Len(buf_crypt)
        fail(e) == [out |-> Err(e), timestamp |-> U32(0, 0)]
    IN IF ~dec.ok THEN fail("InvalidBase62")
       ELSE IF n < HeaderLen + TagLen THEN fail("InvalidDataLength")
       ELSE IF buf_crypt[1] # VERSION THEN fail("InvalidVersion")
       ELSE LET nonce == SubSeq(buf_crypt, 6, HeaderLen)
                buf == SubSeq(buf_crypt, HeaderLen + 1, n - TagLen)
                ks == KeyStream(c.key, nonce, Len(buf))
            IN [out |-> Ok(Tup([i \in 1..Len(buf) |-> (buf[i] - ks[i] + 256) % 256])),
                timestamp |-> ReadU32BE(SubSeq(buf_crypt, 2, 5))]

\* decode_bytes with the tag verified before the version byte is looked at
open_token_tag_first(c, data) ==
    LET dec == Base62Decode(data)
        buf_crypt == dec.bytes
        n == Len(buf_crypt)
        fail(e) == [out |-> Err(e), timestamp |-> U32(0, 0)]
    IN IF ~dec.ok THEN fail("InvalidBase62")
       ELSE IF n < HeaderLen + TagLen THEN fail("InvalidDataLength")
       ELSE LET timestamp == ReadU32BE(SubSeq(buf_crypt, 2, 5))
                nonce == SubSeq(buf_crypt, 6, HeaderLen)
                sign == SubSeq(buf_crypt, n - TagLen + 1, n)
                buf == SubSeq(buf_crypt, HeaderLen + 1, n - TagLen)
                opened == Open(c.key, nonce, SubSeq(buf_crypt, 1, HeaderLen), buf, sign)
            IN IF ~opened.ok THEN fail("InvalidData")
               ELSE IF buf_crypt[1] # VERSION THEN fail("InvalidVersion")
               ELSE [out |-> Ok(opened.pt), timestamp |-> timestamp]

\* decode_bytes up to the AEAD check (lines 66-87): the first gate's error, or the
\* plaintext with the blob's timestamp
open_token(c, data) ==
    LET dec == Base62Decode(data)
        buf_crypt == dec.bytes
        n == Len(buf_crypt)
        fail(e) == [out |-> Err(e), timestamp |-> U32(0, 0)]
    IN IF ~dec.ok THEN fail("InvalidBase62")
       ELSE IF n < HeaderLen + TagLen THEN fail("InvalidDataLength")
       ELSE IF buf_crypt[1] # VERSION THEN fail("InvalidVersion")
       ELSE LET timestamp == ReadU32BE(SubSeq(buf_crypt, 2, 5))
                nonce == SubSeq(buf_crypt, 6, HeaderLen)
                sign == SubSeq(buf_crypt, n - TagLen + 1, n)
                buf == SubSeq(buf_crypt, HeaderLen + 1, n - TagLen)
                opened == Open(c.key, nonce, SubSeq(buf_crypt, 1, HeaderLen), buf, sign)
            IN IF ~opened.ok THEN fail("InvalidData")
               ELSE [out |-> Ok(opened.pt), timestamp |-> timestamp]

\* the expiry check (lines 89-93), `timestamp > get_timestamp() + self.ttl` in u32: an
\* overflowing sum panics in a build that checks overflow (chk) and wraps in one that
\* does not
check_expiry(c, opened, now, chk) ==
    LET limit == AddU32(get_timestamp(now), c.ttl)
    IN IF opened.out.kind # "Ok" THEN opened.out
       ELSE IF limit.overflow /\ chk THEN Panic
       ELSE IF GtU32(opened.timestamp, limit.sum) THEN Err("Expired")
       ELSE opened.out

\* Branka::decode_bytes at the clock value now
decode_bytes(c, data, now, chk) == check_expiry(c, open_token(c, data), now, chk)

----------------------------------------------------------------------------
(* speedy: a String is its length (u32, little endian) and its UTF-8 bytes   *)

\* Writable::write_to_vec for String (strings here are shorter than 65536)
Serialize(v) == <<Len(v) % 256, Len(v) \div 256, 0, 0>> \o v

\* Readable::read_from_buffer for String: Err when the buffer ends early or the bytes
\* are not UTF-8 (here: not ASCII); bytes after the value are left unread
Deserialize(buf) ==
    IF Len(buf) < 4 \/ buf[3] # 0 \/ buf[4] # 0 THEN [ok |-> FALSE, val |-> <<>>]
    ELSE LET n == buf[1] + 256 * buf[2]
         IN IF Len(buf) < 4 + n \/ \E i \in 5..(4 + n) : buf[i] >= 128
            THEN [ok |-> FALSE, val |-> <<>>]
            ELSE [ok |-> TRUE, val |-> SubSeq(buf, 5, 4 + n)]

----------------------------------------------------------------------------
(* flate2: the deflate stream and its gzip and zlib framings.  Level 0 stores *)
(* the data in a stored block, byte for byte as flate2 does; a higher level  *)
(* gives a compressed block, which stands here as its type, the number of    *)
(* literals and the literals (the Huffman coding is left out).               *)

Levels == {0, 6}        \* Compression::none(), Compression::default()

DeflateEncode(buf, level) ==
    LET n == Len(buf)
    IN IF level = 0
       THEN <<1, n % 256, n \div 256, 255 - (n % 256), 255 - (n \div 256)>> \o buf
       ELSE <<3, n>> \o buf

\* inflate from position at: the data and the position after the stream, or Err
\* (every stream that is not well formed is an error of the decoder)
DeflateDecode(b, at) ==
    LET bad == [ok |-> FALSE, data |-> <<>>, next |-> at]
    IN IF Len(b) < at THEN bad
       ELSE IF b[at] = 1
       THEN IF Len(b) < at + 4 \/ b[at + 1] + b[at + 3] # 255 \/ b[at + 2] + b[at + 4] # 255
                 \/ Len(b) < at + 4 + b[at + 1] + 256 * b[at + 2]
            THEN bad
            ELSE LET n == b[at + 1] + 256 * b[at + 2]
                 IN [ok |-> TRUE, data |-> SubSeq(b, at + 5, at + 4 + n), next |-> at + 5 + n]
       ELSE IF b[at] = 3
       THEN IF Len(b) < at + 1 \/ Len(b) < at + 1 + b[at + 1] THEN bad
            ELSE [ok |-> TRUE, data |-> SubSeq(b, at + 2, at + 1 + b[at + 1]),
                  next |-> at + 2 + b[at + 1]]
       ELSE bad

\* Adler-32 of buf, big endian (buf shorter than 256 bytes: the sums stay below 2^31)
Adler32(buf) ==
    LET n == Len(buf)
        sum == SumBytes(buf, 1, n)
        a == (1 + sum) % 65521
        b == (n + (n + 1) * sum - SumWeighted(buf, 1, n)) % 65521
    IN <<b \div 256, b % 256, a \div 256, a % 256>>

\* the gzip trailer: a checksum standing for CRC-32, and ISIZE, little endian
GzTrailer(buf) ==
    LET c == (SumWeighted(buf, 1, Len(buf)) + 7 * SumBytes(buf, 1, Len(buf))) % 65536
    IN <<c % 256, c \div 256, 255 - (c % 256), 255 - (c \div 256),
         Len(buf) % 256, Len(buf) \div 256, 0, 0>>

\* write::GzEncoder: write_all, finish
GzEncode(buf, level) ==
    <<31, 139, 8, 0, 0, 0, 0, 0, 0, 255>> \o DeflateEncode(buf, level) \o GzTrailer(buf)

\* read::GzDecoder: read_to_end
GzDecode(b) ==
    LET bad == [ok |-> FALSE, data |-> <<>>]
    IN IF Len(b) < 10 \/ b[1] # 31 \/ b[2] # 139 \/ b[3] # 8 THEN bad
       ELSE LET body == DeflateDecode(b, 11)
            IN IF ~body.ok \/ Len(b) < body.next + 7
                  \/ SubSeq(b, body.next, body.next + 7) # GzTrailer(body.data)
               THEN bad
               ELSE [ok |-> TRUE, data |-> body.data]

\* write::ZlibEncoder: write_all, finish
ZlibEncode(buf, level) ==
    <<120, IF level = 0 THEN 1 ELSE 156>> \o DeflateEncode(buf, level) \o Adler32(buf)

\* read::ZlibDecoder: read_to_end
ZlibDecode(b) ==
    LET bad == [ok |-> FALSE, data |-> <<>>]
    IN IF Len(b) < 2 \/ b[1] % 16 # 8 \/ (b[1] * 256 + b[2]) % 31 # 0 THEN bad
       ELSE LET body == DeflateDecode(b, 3)
            IN IF ~body.ok \/ Len(b) < body.next + 3
                  \/ SubSeq(b, body.next, body.next + 3) # Adler32(body.data)
               THEN bad
               ELSE [ok |-> TRUE, data |-> body.data]

\* read::DeflateDecoder: read_to_end
RawDeflateDecode(b) ==
    LET body == DeflateDecode(b, 1)
    IN [ok |-> body.ok, data |-> body.data]

----------------------------------------------------------------------------
(* The struct adapters *)

Adapters == {"struct", "gz", "zlib", "deflate"}

\* the compression step of encode_X_struct
Compress(x, buf, level) ==
    IF x = "gz" THEN GzEncode(buf, level)
    ELSE IF x = "zlib" THEN ZlibEncode(buf, level)
    ELSE IF x = "deflate" THEN DeflateEncode(buf, level)
    ELSE buf

\* the decompression step of decode_X_struct
Decompress(x, b) ==
    IF x = "gz" THEN GzDecode(b)
    ELSE IF x = "zlib" THEN ZlibDecode(b)
    ELSE IF x = "deflate" THEN RawDeflateDecode(b)
    ELSE [ok |-> TRUE, data |-> b]

\* the bytes encode_struct / encode_gz_struct / encode_zlib_struct / encode_deflate_struct
\* hand to encode_bytes
AdapterPayload(x, v, level) == Compress(x, Serialize(v), level)

encode_struct(c, x, v, level, nonce, timestamp) ==
    encode_bytes(c, AdapterPayload(x, v, level), nonce, timestamp)

\* decode_struct / decode_gz_struct / decode_zlib_struct / decode_deflate_struct:
\* `?` on decode_bytes, unwrap on read_to_end, map_err on read_from_buffer
decode_struct(c, x, data, now, chk) ==
    LET decoded == decode_bytes(c, data, now, chk)
    IN IF decoded.kind # "Ok" THEN decoded
       ELSE LET buf == Decompress(x, decoded.val)
            IN IF ~buf.ok THEN Panic
               ELSE LET v == Deserialize(buf.data)
                    IN IF ~v.ok THEN Err("InvalidData") ELSE Ok(v.val)

----------------------------------------------------------------------------
(* The inputs the model draws from *)

\* all sequences over S of length 0..n
SeqsUpTo(S, n) == UNION {{Tup(f) : f \in [1..k -> S]} : k \in 0..n}

KeyA == Tup([i \in 1..KeyLen |-> i])
KeyB == Fill(KeyLen, 7)
\* keys handed to Branka::new: one of 32 bytes, one shorter, one longer
KeysGiven == {KeyA, SubSeq(KeyA, 1, KeyLen - 1), KeyA \o <<0>>}

TTLs == {U32(0, 1), MaxU32}

\* the clock's instants: a day in 2023 and the seconds after it
Instant(i) == <<0, 0, 25856, i>>
Instants == {Instant(i) : i \in 0..MaxTick}

Nonces == {Fill(NonceLen, 0), Tup([i \in 1..NonceLen |-> 255 - i])}
Payloads == SeqsUpTo({0, 255}, MaxLen)
Values == SeqsUpTo({72}, MaxStr)

\* timestamps written into crafted blobs: the instants and the epoch itself
CraftTimes == {get_timestamp(t) : t \in Instants} \cup {U32(0, 0)}

----------------------------------------------------------------------------
(* The state machine: one caller, one call at a time *)

NoRes == [op |-> "none", out |-> Ok(<<>>), now |-> U32(0, 0)]

NoTok == [kind |-> "none", data |-> <<>>, value |-> <<>>, level |-> 0, ts |-> U32(0, 0),
          nonce |-> <<>>, blob |-> <<>>, ver |-> 0, goodTag |-> FALSE, cut |-> FALSE,
          alpha |-> FALSE, flip |-> -1]

InitCommon ==
    /\ built = [st |-> "none", key |-> <<>>]
    /\ codec = NoCodec
    /\ checked \in BOOLEAN
    /\ clock = Instant(0)
    /\ token = <<>>
    /\ tok = NoTok
    /\ res = NoRes

Init == InitCommon /\ calls = <<>>

\* Branka::new(key, ttl)
New(key, ttl) ==
    /\ built.st = "none"
    /\ built' = [st |-> NewOutcome(key), key |-> key]
    /\ codec' = IF NewOutcome(key) = "ok" THEN [key |-> key, ttl |-> ttl] ELSE NoCodec
    /\ UNCHANGED <<checked, clock, token, tok, res, calls>>

\* a second passes
Tick ==
    /\ built.st = "ok"
    /\ res = NoRes
    /\ \E i \in 0..(MaxTick - 1) : clock = Instant(i) /\ clock' = Instant(i + 1)
    /\ UNCHANGED <<built, codec, checked, token, tok, res, calls>>

Idle == built.st = "ok" /\ res = NoRes /\ tok.kind = "none"

\* encode_bytes(data), the nonce from OsRng
EncodeBytes(data, nonce) ==
    /\ Idle
    /\ token' = encode_bytes(codec, data, nonce, get_timestamp(clock))
    /\ tok' = [NoTok EXCEPT !.kind = "bytes", !.data = data, !.ts = get_timestamp(clock),
                            !.nonce = nonce, !.ver = VERSION, !.goodTag = TRUE, !.alpha = TRUE,
                            !.blob = EncodeBlob(codec, data, nonce, get_timestamp(clock))]
    /\ UNCHANGED <<built, codec, checked, clock, res, calls>>

\* encode_struct(v), encode_gz_struct(v, level), encode_zlib_struct(v, level),
\* encode_deflate_struct(v, level)
EncodeStruct(x, v, level, nonce) ==
    /\ Idle
    /\ x = "struct" => level = 0
    /\ token' = encode_struct(codec, x, v, level, nonce, get_timestamp(clock))
    /\ tok' = [NoTok EXCEPT !.kind = x, !.data = AdapterPayload(x, v, level), !.value = v,
                            !.level = level, !.ts = get_timestamp(clock), !.nonce = nonce,
                            !.ver = VERSION, !.goodTag = TRUE, !.alpha = TRUE,
                            !.blob = EncodeBlob(codec, AdapterPayload(x, v, level), nonce,
                                                get_timestamp(clock))]
    /\ UNCHANGED <<built, codec, checked, clock, res, calls>>

\* a blob made by hand: version byte ver, timestamp ts, sealed under the codec's key
\* (goodTag) or under another key, cut to 44 bytes or not
CraftBlob(c, ver, ts, goodTag, cut) ==
    LET nonce == Fill(NonceLen, 1)
        header == <<ver>> \o WriteU32BE(ts) \o nonce
        sealed == Seal(IF goodTag THEN c.key ELSE KeyB, nonce, header, <<>>)
        blob == header \o sealed.ct \o sealed.tag
    IN IF cut THEN SubSeq(blob, 1, HeaderLen + TagLen - 1) ELSE blob

\* the caller is handed a token made elsewhere: the text of a crafted blob, whole
\* (alpha) or with its first character replaced by '-'
Craft(ver, ts, goodTag, cut, alpha) ==
    /\ Idle
    /\ LET blob == CraftBlob(codec, ver, ts, goodTag, cut)
           text == Base62Encode(blob)
       IN /\ token' = IF alpha THEN text ELSE <<45>> \o Tail(text)
          /\ tok' = [NoTok EXCEPT !.kind = "crafted", !.ts = ts, !.nonce = Fill(NonceLen, 1),
                                  !.ver = ver, !.goodTag = goodTag, !.cut = cut,
                                  !.alpha = alpha, !.blob = blob]
    /\ UNCHANGED <<built, codec, checked, clock, res, calls>>

HasToken == built.st = "ok" /\ res = NoRes /\ tok.kind # "none"

\* decode_bytes(token)
DecodeBytes ==
    /\ HasToken
    /\ res' = [op |-> "bytes", out |-> decode_bytes(codec, token, clock, checked),
               now |-> get_timestamp(clock)]
    /\ UNCHANGED <<built, codec, checked, clock, token, tok, calls>>

\* decode_struct(token), decode_gz_struct(token), decode_zlib_struct(token),
\* decode_deflate_struct(token)
DecodeStruct(x) ==
    /\ HasToken
    /\ res' = [op |-> x, out |-> decode_struct(codec, x, token, clock, checked),
               now |-> get_timestamp(clock)]
    /\ UNCHANGED <<built, codec, checked, clock, token, tok, calls>>

\* the caller takes the call's result
Return ==
    /\ res # NoRes
    /\ res' = NoRes
    /\ UNCHANGED <<built, codec, checked, clock, token, tok, calls>>

\* the caller lets go of the token
Drop ==
    /\ HasToken
    /\ token' = <<>>
    /\ tok' = NoTok
    /\ UNCHANGED <<built, codec, checked, clock, res, calls>>

Next ==
    \/ \E key \in KeysGiven, ttl \in TTLs : New(key, ttl)
    \/ Tick
    \/ \E data \in Payloads, nonce \in Nonces : EncodeBytes(data, nonce)
    \/ \E x \in Adapters, v \in Values, level \in Levels, nonce \in Nonces :
          EncodeStruct(x, v, level, nonce)
    \/ \E ver \in {VERSION, 0}, ts \in CraftTimes, goodTag \in BOOLEAN, cut \in BOOLEAN,
          alpha \in BOOLEAN : Craft(ver, ts, goodTag, cut, alpha)
    \/ DecodeBytes
    \/ \E x \in Adapters : DecodeStruct(x)
    \/ Return
    \/ Drop

Spec == Init /\ [][Next]_vars

----------------------------------------------------------------------------
(* The claims about the sequential calls, checked under Spec *)

\* ts <= now + ttl, the sum taken in the integers (no wrapping)
WithinTtl(ts, now, ttl) ==
    LET lo == now.lo + ttl.lo
        hi == now.hi + ttl.hi + (lo \div 65536)
    IN ts.hi < hi \/ (ts.hi = hi /\ ts.lo <= lo % 65536)

\* the token in hand came out of one of the encode calls
Produced == tok.kind \in {"bytes"} \cup Adapters

\* the token in hand passes the base62, length, version and authentication gates
PassesGates == Produced \/ (tok.kind = "crafted" /\ tok.alpha /\ ~tok.cut
                            /\ tok.ver = VERSION /\ tok.goodTag)

GateErrors == {"InvalidBase62", "InvalidDataLength", "InvalidVersion", "InvalidData"}

\* C1: a token made by encode_bytes at t_enc and decoded with the same key at t_dec,
\* t_enc <= t_dec + ttl, decodes to Ok(the payload)
C1_RoundTrip ==
    (res.op = "bytes" /\ tok.kind = "bytes" /\ WithinTtl(tok.ts, res.now, codec.ttl))
        => res.out = Ok(tok.data)

\* C3: a token that passes the first four gates is Expired exactly when its timestamp
\* is greater than now + ttl, and decodes to Ok(payload) otherwise
C3_ExpiryPolicy ==
    (res.op = "bytes" /\ PassesGates)
        => res.out = IF WithinTtl(tok.ts, res.now, codec.ttl) THEN Ok(tok.data)
                     ELSE Err("Expired")

\* C4: decode_bytes returns the error of the first gate that fails, in the order
\* base62, length, version, AEAD; Expired and Ok only come after all four passed
C4_GateOrder ==
    res.op = "bytes" =>
        /\ (tok.kind = "crafted" /\ ~tok.alpha) => res.out = Err("InvalidBase62")
        /\ (tok.kind = "crafted" /\ tok.alpha /\ tok.cut) => res.out = Err("InvalidDataLength")
        /\ (tok.kind = "crafted" /\ tok.alpha /\ ~tok.cut /\ tok.ver # VERSION)
              => res.out = Err("InvalidVersion")
        /\ (tok.kind = "crafted" /\ tok.alpha /\ ~tok.cut /\ tok.ver = VERSION /\ ~tok.goodTag)
              => res.out = Err("InvalidData")
        /\ (res.out = Err("Expired") \/ res.out.kind = "Ok") => PassesGates

\* C4's case: a whole blob with a wrong version byte, a tag that does not verify and a
\* timestamp in the future came back as InvalidVersion
C4_Witness ==
    /\ res.op = "bytes" /\ tok.kind = "crafted" /\ tok.alpha /\ ~tok.cut
    /\ tok.ver # VERSION /\ ~tok.goodTag /\ GtU32(tok.ts, res.now)
    /\ res.out = Err("InvalidVersion")

\* C5: no decode call panics: each ends in Ok or in a BrankaError
C5_NoDecodePanics == res.out.kind # "Panic"

\* C6: Branka::new with a key that is not 32 bytes long fails there and then: it
\* panics, no codec exists and no call is ever made on one; a codec that exists holds
\* the 32 bytes it was given
C6_KeyLengthAtConstruction ==
    /\ built.st = "ok" => (Len(built.key) = 32 /\ codec.key = built.key)
    /\ (built.st # "none" /\ Len(built.key) # 32)
          => (built.st = "panic" /\ codec = NoCodec /\ tok = NoTok /\ res = NoRes)

\* C6's case: new was given 31 bytes and panicked
C6_Witness == built.st = "panic" /\ Len(built.key) = 31

\* C7: the blob encode_bytes hands to the radix encoder is
\* 0xBA || timestamp (big endian) || nonce || ciphertext || tag, 29 + n + 16 bytes, the
\* 29 header bytes being the associated data of the seal; the token is that blob's
\* text; the empty payload's 45 bytes are not turned away by decode_bytes' gates
C7_WireLayout ==
    Produced =>
        LET n == Len(tok.data)
            sealed == Seal(codec.key, tok.nonce, SubSeq(tok.blob, 1, 29), tok.data)
        IN /\ Len(tok.blob) = 29 + n + 16
           /\ tok.blob[1] = 186
           /\ tok.blob[2] * 256 + tok.blob[3] = tok.ts.hi
           /\ tok.blob[4] * 256 + tok.blob[5] = tok.ts.lo
           /\ SubSeq(tok.blob, 6, 29) = tok.nonce
           /\ Len(sealed.ct) = n
           /\ SubSeq(tok.blob, 30, 29 + n) = sealed.ct
           /\ SubSeq(tok.blob, 30 + n, 45 + n) = sealed.tag
           /\ res = NoRes => Base62Decode(token) = [ok |-> TRUE, bytes |-> tok.blob]
           /\ (res.op = "bytes" /\ n = 0) => (Len(tok.blob) = 45 /\ res.out.err \notin GateErrors)

\* C7's case: the empty payload's token, 45 bytes, decoded to Ok
C7_Witness ==
    /\ tok.kind = "bytes" /\ tok.data = <<>> /\ Len(tok.blob) = 45
    /\ res.op = "bytes" /\ res.out = Ok(<<>>)

\* C8: decode_X_struct(encode_X_struct(v, level)) = v for every adapter pair X
C8_AdapterRoundTrip ==
    (res.op \in Adapters /\ tok.kind = res.op) => res.out = Ok(tok.value)

\* C10: the expiry sum now + ttl neither wraps nor aborts: a token that passes the
\* gates with timestamp <= now is never Expired and decode never panics
C10_ExpirySumDoesNotOverflow ==
    (res.op = "bytes" /\ PassesGates /\ ~GtU32(tok.ts, res.now)) => res.out.kind = "Ok"

----------------------------------------------------------------------------
(* Tampering: a token of encode_bytes has one bit of its blob flipped before it is
   handed to decode_bytes *)

TamperPayloads == {<<>>, <<255>>}

\* one bit of the token's binary form is flipped and the blob is put back into text
Tamper ==
    /\ HasToken
    /\ tok.kind = "bytes"
    /\ LET blob == Base62Decode(token).bytes
       IN \E i \in 0..(8 * Len(blob) - 1) :
             /\ token' = Base62Encode(FlipBit(blob, i))
             /\ tok' = [tok EXCEPT !.kind = "tampered", !.flip = i, !.goodTag = FALSE,
                                   !.blob = FlipBit(blob, i)]
    /\ UNCHANGED <<built, codec, checked, clock, res, calls>>

NextTamper ==
    \/ \E ttl \in TTLs : New(KeyA, ttl)
    \/ \E data \in TamperPayloads : EncodeBytes(data, Fill(NonceLen, 0))
    \/ Tamper
    \/ DecodeBytes
    \/ Return
    \/ Drop

SpecTamper == Init /\ [][NextTamper]_vars

\* C2 as stated: every single bit flip of a valid token's blob, the version byte's
\* bits included, makes decode_bytes return InvalidData
C2_EveryFlipIsInvalidData ==
    (res.op = "bytes" /\ tok.kind = "tampered") => res.out = Err("InvalidData")

\* C2: a single bit flip of a valid token's blob never decodes to Ok: a flip in the
\* version byte returns InvalidVersion, a flip in the timestamp, the nonce, the
\* ciphertext or the tag returns InvalidData
C2_TamperSensitivity ==
    (res.op = "bytes" /\ tok.kind = "tampered")
        => res.out = IF tok.flip \div 8 = 0 THEN Err("InvalidVersion") ELSE Err("InvalidData")

\* C2's case: a bit of the one ciphertext byte was flipped and decode_bytes returned
\* InvalidData
C2_Witness ==
    /\ res.op = "bytes" /\ tok.kind = "tampered" /\ Len(tok.blob) = 46
    /\ tok.flip \div 8 = 29 /\ res.out = Err("InvalidData")

----------------------------------------------------------------------------
(* Several callers on one shared codec, their calls interleaved step by step *)

Callers == {1, 2}
ConcPayloads == {<<>>}

\* a call that writes to the codec it was given: the ttl is zeroed
SelfAfterWritingTtl(c) == [c EXCEPT !.ttl = U32(0, 0)]

\* encode_bytes and decode_bytes take &self, and Branka has no interior mutability:
\* the codec as a step of a call leaves it
SelfAfter(c) == c

NoCall == [op |-> "none", pc |-> "idle", c0 |-> NoCodec, data |-> <<>>, nonce |-> <<>>,
           now |-> Instant(0), opened |-> [out |-> Ok(<<>>), timestamp |-> U32(0, 0)],
           out |-> Ok(<<>>)]

InitConc == InitCommon /\ calls = [p \in Callers |-> NoCall]

\* caller p enters encode_bytes(data); c0 remembers the codec it was called on
StartEncode(p, data) ==
    /\ built.st = "ok"
    /\ calls[p].op = "none"
    /\ calls' = [calls EXCEPT ![p] = [NoCall EXCEPT !.op = "encode", !.pc = "nonce",
                                                     !.c0 = codec, !.data = data]]
    /\ UNCHANGED <<built, codec, checked, clock, token, tok, res>>

\* line 42: the nonce from OsRng
DrawNonce(p, nonce) ==
    /\ calls[p].pc = "nonce"
    /\ calls' = [calls EXCEPT ![p].pc = "time", ![p].nonce = nonce]
    /\ UNCHANGED <<built, codec, checked, clock, token, tok, res>>

\* line 43: get_timestamp()
ReadTime(p) ==
    /\ calls[p].pc = "time"
    /\ calls' = [calls EXCEPT ![p].pc = "seal", ![p].now = clock]
    /\ UNCHANGED <<built, codec, checked, clock, token, tok, res>>

\* lines 45-62: header, seal, base62
SealStep(p) ==
    /\ calls[p].pc = "seal"
    /\ calls' = [calls EXCEPT ![p].pc = "done",
                              ![p].out = Ok(encode_bytes(codec, calls[p].data, calls[p].nonce,
                                                         get_timestamp(calls[p].now)))]
    /\ codec' = SelfAfter(codec)
    /\ UNCHANGED <<built, checked, clock, token, tok, res>>

\* the tokens a caller can get hold of: those the finished encode calls returned, and
\* a string outside the alphabet
TokensAbout ==
    {calls[q].out.val : q \in {r \in Callers : calls[r].op = "encode" /\ calls[r].pc = "done"}}
        \cup {<<45>>}

\* caller p enters decode_bytes(data)
StartDecode(p, data) ==
    /\ built.st = "ok"
    /\ calls[p].op = "none"
    /\ calls' = [calls EXCEPT ![p] = [NoCall EXCEPT !.op = "decode", !.pc = "open",
                                                     !.c0 = codec, !.data = data]]
    /\ UNCHANGED <<built, codec, checked, clock, token, tok, res>>

\* lines 66-87: the gates up to the AEAD; an error returns at once
OpenStep(p) ==
    /\ calls[p].pc = "open"
    /\ LET opened == open_token(codec, calls[p].data)
       IN calls' = [calls EXCEPT ![p].opened = opened,
                                 ![p].pc = IF opened.out.kind = "Ok" THEN "expiry" ELSE "done",
                                 ![p].out = opened.out]
    /\ codec' = SelfAfter(codec)
    /\ UNCHANGED <<built, checked, clock, token, tok, res>>

\* lines 89-93: get_timestamp() and the comparison with self.ttl
ExpiryStep(p) ==
    /\ calls[p].pc = "expiry"
    /\ calls' = [calls EXCEPT ![p].pc = "done", ![p].now = clock,
                              ![p].out = check_expiry(codec, calls[p].opened, clock, checked)]
    /\ codec' = SelfAfter(codec)
    /\ UNCHANGED <<built, checked, clock, token, tok, res>>

\* caller p takes its call's result
Finish(p) ==
    /\ calls[p].pc = "done"
    /\ calls' = [calls EXCEPT ![p] = NoCall]
    /\ UNCHANGED <<built, codec, checked, clock, token, tok, res>>

NextConc ==
    \/ \E ttl \in TTLs : New(KeyA, ttl)
    \/ Tick
    \/ \E p \in Callers, data \in ConcPayloads : StartEncode(p, data)
    \/ \E p \in Callers, nonce \in Nonces : DrawNonce(p, nonce)
    \/ \E p \in Callers : ReadTime(p)
    \/ \E p \in Callers : SealStep(p)
    \/ \E p \in Callers, data \in TokensAbout : StartDecode(p, data)
    \/ \E p \in Callers : OpenStep(p)
    \/ \E p \in Callers : ExpiryStep(p)
    \/ \E p \in Callers : Finish(p)

SpecConc == InitConc /\ [][NextConc]_vars

\* C9: no step of an encode or decode call changes the shared codec, and whatever the
\* interleaving a finished call's result is the one the call gives when run alone on
\* its input, nonce and clock value
C9_SharedCodecCallsAreIndependent ==
    \A p \in Callers :
        calls[p].op # "none" =>
            /\ codec = calls[p].c0
            /\ calls[p].pc = "done" =>
                  calls[p].out =
                      IF calls[p].op = "encode"
                      THEN Ok(encode_bytes(calls[p].c0, calls[p].data, calls[p].nonce,
                                           get_timestamp(calls[p].now)))
                      ELSE decode_bytes(calls[p].c0, calls[p].data, calls[p].now, checked)

\* C9's case: a decode call finished with Ok while the other caller was in the middle
\* of an encode call
C9_Witness ==
    \E p, q \in Callers :
        /\ calls[p].op = "decode" /\ calls[p].pc = "done" /\ calls[p].out.kind = "Ok"
        /\ calls[q].op = "encode" /\ calls[q].pc \in {"time", "seal"}

=============================================================================
